---- MODULE Spec2Model ----
(***************************************************************************)
(* JSONL -> Milvus ingestion pipeline of src/app: the schema validator,    *)
(* the schema mapper, the collection provisioner, the batch ingestion loop *)
(* and the orchestrator that writes the upload log                         *)
(* (src/app/milvus_uploader.py, src/app/schema_manager.py).                *)
(***************************************************************************)
EXTENDS Integers, Sequences, FiniteSets, TLC

VARIABLES
    schema_store,   \* schemas table: its rows (name, fields), oldest first
    store_log,      \* history: one entry per create_schema / delete_schema_by_name call
    connections,    \* pymilvus connection registry: alias -> host ("none" when not connected)
    engine,         \* Milvus: host -> collection name -> collection
    upload_logs,    \* upload_logs table: the rows stored, oldest first
    pc,             \* where the current call stands ("idle" between calls)
    run,            \* locals of upload_jsonl_to_milvus
    prov,           \* locals of get_or_create_collection
    ing,            \* locals of _insert_data_internal
    calls,          \* history: engine calls issued by the current invocation
    line_log,       \* history: what became of each line read by the current invocation
    ensure_log,     \* history: one entry per finished get_or_create_collection call
    audit_calls,    \* history: one entry per create_upload_log call
    parked,         \* the other of two concurrent get_or_create_collection calls
    val             \* validate_schema_definition: its argument and its outcome

vars == <<schema_store, store_log, connections, engine, upload_logs, pc, run, prov, ing,
          calls, line_log, ensure_log, audit_calls, parked, val>>

\* ---------------------------------------------------------------- bounds

\* Lines of the source file of an invocation.
MaxLines == 4
\* Largest batch_size passed to an invocation.
MaxBatch == 2
\* Successive direct calls of get_or_create_collection.
MaxCalls == 2
\* Fields of a list passed to validate_schema_definition.
MaxFields == 2
\* create_schema and delete_schema_by_name calls of a behaviour.
MaxStoreOps == 2

\* ---------------------------------------------------------------- values

DEFAULT_ALIAS == "default"

Aliases == {DEFAULT_ALIAS}

Hosts == {"localhost", "remote"}

NoHost == "none"

\* A field descriptor as stored in SchemaModel.fields; dim 0 stands for an
\* absent / None 'dim'.
FieldDef(n, t, pk, vec, d) ==
    [name |-> n, type |-> t, is_primary |-> pk, is_vector |-> vec, dim |-> d]

DocsFields ==
    << FieldDef("id", "int", TRUE, FALSE, 0),
       FieldDef("vec", "vector<float>", FALSE, TRUE, 2) >>

PairFields ==
    << FieldDef("key", "str", TRUE, FALSE, 0),
       FieldDef("a", "vector<float>", FALSE, TRUE, 1),
       FieldDef("b", "vector<float>", FALSE, TRUE, 1) >>

\* Passes validate_schema_definition (is_vector is explicitly False, dim is
\* None) and is rejected by map_schema_to_milvus.
FlatFields ==
    << FieldDef("id", "int", TRUE, FALSE, 0),
       FieldDef("v", "vector<float>", FALSE, FALSE, 0) >>

\* A schema whose integer primary key carries the 'auto_generate' key.
AutoFields ==
    << [name |-> "id", type |-> "int", is_primary |-> TRUE, is_vector |-> FALSE,
        dim |-> 0, auto_generate |-> TRUE],
       FieldDef("vec", "vector<float>", FALSE, TRUE, 2) >>

SchemaNames == {"docs", "pair", "flat", "auto", "ghost"}

\* A row of the schemas table.
SchemaRow(name, fields) == [name |-> name, fields |-> fields]

\* The table the process starts with; there is no row for "ghost".
InitialStore ==
    << SchemaRow("docs", DocsFields), SchemaRow("pair", PairFields),
       SchemaRow("flat", FlatFields), SchemaRow("auto", AutoFields) >>

\* The rows of the table that carry the name.
RowsNamed(store, name) == {i \in 1..Len(store) : store[i].name = name}

\* get_schema_by_name, lines 68-76: the fields of the first row with the
\* name, <<>> for None.
get_schema_by_name(store, name) ==
    IF RowsNamed(store, name) = {} THEN <<>>
    ELSE store[CHOOSE i \in RowsNamed(store, name) :
                  \A j \in RowsNamed(store, name) : i <= j].fields

\* ------------------------------------------------- map_schema_to_milvus

\* The DataType a field descriptor maps to, "ERR" where the mapper raises.
MilvusType(field) ==
    IF field.is_vector
    THEN IF field.type # "vector<float>" THEN "ERR"
         ELSE IF field.dim <= 0 THEN "ERR"
         ELSE "FLOAT_VECTOR"
    ELSE IF field.type \in {"str", "string", "varchar"} THEN "VARCHAR"
    ELSE IF field.type \in {"int", "int64"} THEN "INT64"
    ELSE IF field.type \in {"float", "float32"} THEN "FLOAT"
    ELSE IF field.type \in {"bool", "boolean"} THEN "BOOL"
    ELSE "ERR"

FieldSchema(field) ==
    [name |-> field.name, dtype |-> MilvusType(field), dim |-> field.dim,
     is_primary |-> field.is_primary]

PrimaryIdx(fields) == {i \in 1..Len(fields) : fields[i].is_primary}

\* Line 153 replaced: auto_id follows an 'auto_generate' key of an INT64
\* primary key.
map_schema_to_milvus_AutoGenerate(fields) ==
    LET milvus_fields == [i \in 1..Len(fields) |-> FieldSchema(fields[i])]
        pks == PrimaryIdx(fields)
        ok == /\ Len(fields) > 0
              /\ \A i \in 1..Len(fields) :
                    /\ fields[i].name # "" /\ fields[i].type # ""
                    /\ milvus_fields[i].dtype # "ERR"
              /\ \A i \in pks : milvus_fields[i].dtype \in {"INT64", "VARCHAR"}
              /\ Cardinality(pks) = 1
    IN  [ok |-> ok,
         fields |-> IF ok THEN milvus_fields ELSE <<>>,
         primary_field |-> IF ok THEN fields[CHOOSE i \in pks : TRUE].name ELSE "",
         auto_id |-> /\ ok
                     /\ \E i \in pks :
                            /\ milvus_fields[i].dtype = "INT64"
                            /\ "auto_generate" \in DOMAIN fields[i]
                            /\ fields[i].auto_generate]

\* Lines 59-153. The descriptor keys read are name, type, is_primary,
\* is_vector and dim; with a primary key found, line 153 gives auto_id False.
map_schema_to_milvus(fields) ==
    LET milvus_fields == [i \in 1..Len(fields) |-> FieldSchema(fields[i])]
        pks == PrimaryIdx(fields)
        ok == /\ Len(fields) > 0
              /\ \A i \in 1..Len(fields) :
                    /\ fields[i].name # "" /\ fields[i].type # ""
                    /\ milvus_fields[i].dtype # "ERR"
              /\ \A i \in pks : milvus_fields[i].dtype \in {"INT64", "VARCHAR"}
              /\ Cardinality(pks) = 1
    IN  [ok |-> ok,
         fields |-> IF ok THEN milvus_fields ELSE <<>>,
         primary_field |-> IF ok THEN fields[CHOOSE i \in pks : TRUE].name ELSE "",
         auto_id |-> FALSE]

NoSchema == [ok |-> FALSE, fields |-> <<>>, primary_field |-> "", auto_id |-> FALSE]

\* --------------------------------------------------------- JSON values

\* A JSON value of a record: its Python type after json.loads, and for a list
\* its elements ("i" int, "f" float, "s" a numeric string, "x" a string that
\* float() rejects).
Val(k) == [k |-> k, e |-> <<>>]

ListVal(e) == [k |-> "list", e |-> e]

Absent == Val("absent")

\* Records of a line are drawn field by field from these sets.
ScalarInputs ==
    {Val("int"), Val("float"), Val("inf"), Val("numstr"), Val("badstr"), Val("null")}

VectorInputs ==
    {ListVal(<<"f">>), ListVal(<<"f", "f">>), ListVal(<<"i", "f">>), ListVal(<<"s">>),
     ListVal(<<"s", "f">>), ListVal(<<"x", "f">>), Val("null")}

\* The values a record may hold for a field of the given DataType, the field
\* being absent included.
RichInputs(dtype) ==
    {Absent} \cup (IF dtype = "FLOAT_VECTOR" THEN VectorInputs
                   ELSE ScalarInputs \cup {ListVal(<<"f">>)})

\* ---------------------------------------- type coercion of one value

IsStr(v) == v.k \in {"numstr", "badstr"}

\* isinstance(value, int): bool is a subclass of int.
IsInt(v) == v.k \in {"int", "bool"}

IsFloat(v) == v.k \in {"float", "inf"}

\* all(isinstance(v, (float, int)) for v in value)
AllNumbers(e) == \A i \in 1..Len(e) : e[i] \in {"i", "f"}

Appended(v) == [res |-> "ok", val |-> v]

\* ValueError / TypeError: caught by the record's except clause.
Rejected == [res |-> "skip", val |-> Absent]

\* Any other exception leaves _insert_data_internal.
Raised == [res |-> "raise", val |-> Absent]

\* str(value)
StrOf(v) == Appended(IF v.k \in {"int", "float"} THEN Val("numstr") ELSE Val("badstr"))

\* int(value): OverflowError on an infinite float, ValueError on a string
\* that is no number, TypeError on None and on a list.
IntOf(v) ==
    CASE v.k \in {"float", "numstr"} -> Appended(Val("int"))
      [] v.k = "inf" -> Raised
      [] OTHER -> Rejected

\* float(value)
FloatOf(v) ==
    CASE v.k \in {"int", "bool", "numstr"} -> Appended(Val("float"))
      [] OTHER -> Rejected

\* bool(value)
BoolOf(v) == Appended(Val("bool"))

\* [float(v) for v in value], TypeError when an element is rejected.
FloatList(e) ==
    IF \E i \in 1..Len(e) : e[i] = "x" THEN Rejected
    ELSE Appended(ListVal([i \in 1..Len(e) |-> "f"]))

\* The vector branch: entered only when the value is no list or holds an
\* element that is neither float nor int; the dimension check is inside it.
VectorOf(v, dim) ==
    IF v.k # "list" THEN Rejected
    ELSE LET c == FloatList(v.e)
         IN  IF c.res # "ok" THEN c
             ELSE IF dim # Len(c.val.e) THEN Rejected
             ELSE c

\* Lines 356-376: the value appended for a present value of a field.
Coerce(milvus_field, v) ==
    LET dtype == milvus_field.dtype
    IN  CASE dtype = "VARCHAR" /\ ~IsStr(v) -> StrOf(v)
          [] dtype = "INT64" /\ ~IsInt(v) -> IntOf(v)
          [] dtype = "FLOAT" /\ ~IsFloat(v) -> FloatOf(v)
          [] dtype = "BOOL" /\ v.k # "bool" -> BoolOf(v)
          [] dtype = "FLOAT_VECTOR" /\ (v.k # "list" \/ ~AllNumbers(v.e)) ->
                VectorOf(v, milvus_field.dim)
          [] OTHER -> Appended(v)

\* Lines 345-378: what one field of the record does to the record.
ProcessValue(milvus_field, v) ==
    IF v = Absent THEN Rejected ELSE Coerce(milvus_field, v)

\* A list of numbers whose length is not the field's dimension.
WrongDimension(milvus_field, v) ==
    /\ milvus_field.dtype = "FLOAT_VECTOR"
    /\ v.k = "list"
    /\ AllNumbers(v.e)
    /\ Len(v.e) # milvus_field.dim

\* ------------------------------------------------------ state records

NoCollection ==
    [exists |-> FALSE, uid |-> 0, schema |-> NoSchema, indexes |-> {}, rows |-> <<>>]

\* mode: "upload" for upload_jsonl_to_milvus, "ensure" for a direct call of
\* get_or_create_collection.  error: the exception the call ended with.
IdleRun ==
    [no |-> 0, mode |-> "upload", schema_name |-> "", host |-> "localhost",
     alias |-> DEFAULT_ALIAS, batch_size |-> 0, schema_def |-> <<>>,
     total_inserted_count |-> 0, log_status |-> "Failed", log_message |-> "",
     message_len |-> 0, error |-> ""]

IdleProv == [milvus_schema |-> NoSchema, idx |-> 0, created |-> FALSE, indexed |-> <<>>]

IdleIng ==
    [fields |-> <<>>, batch_data |-> <<>>, batch_count |-> 0,
     total_inserted_count |-> 0, line_num |-> 0, skipped_records |-> 0,
     fld |-> 0, wrongdim |-> FALSE]

\* No second call of get_or_create_collection is under way.
NoThread == [pc |-> "none", run |-> IdleRun, prov |-> IdleProv]

\* validate_schema_definition has not been called.
IdleVal == [given |-> <<>>, fields |-> <<>>, result |-> "", mapped |-> NoSchema, step |-> "idle"]

Call(op, arg, n, ok, ragged) ==
    [op |-> op, arg |-> arg, n |-> n, ok |-> ok, ragged |-> ragged]

Line(out, why, wrongdim) == [out |-> out, why |-> why, wrongdim |-> wrongdim]

\* The host the alias of the call is connected to.
Using == connections[run.alias]

Collection == engine[Using][run.schema_name]

Init ==
    /\ schema_store = InitialStore
    /\ store_log = <<>>
    /\ connections = [a \in Aliases |-> NoHost]
    /\ engine = [h \in Hosts |-> [n \in SchemaNames |-> NoCollection]]
    /\ upload_logs = <<>>
    /\ pc = "idle"
    /\ run = IdleRun
    /\ prov = IdleProv
    /\ ing = IdleIng
    /\ calls = <<>>
    /\ line_log = <<>>
    /\ ensure_log = <<>>
    /\ audit_calls = <<>>
    /\ parked = NoThread
    /\ val = IdleVal

\* ------------------------------------------- upload_jsonl_to_milvus

\* Line 274: the longest message written to the upload log.
MessageLimit == 1020

\* len(str(e)): the text of an exception that quotes the engine's own message
\* or a path can be long, the others are short.
DiagLen(e) ==
    IF e \in {"InsertError", "CreateCollectionError", "HasCollectionError", "AlreadyExists",
              "FileNotFoundError"}
    THEN MessageLimit + 480
    ELSE 60

\* The message stored as it is.
Truncate_None(n) == n

\* Line 274: str(e)[:1020].
Truncate(n) == IF n > MessageLimit THEN MessageLimit ELSE n

\* Lines 271-277: the except clause sets the log fields and re-raises.
Except(r, e) ==
    [r EXCEPT !.log_status = "Failed", !.log_message = e,
              !.message_len = Truncate(DiagLen(e)), !.error = e]

\* Lines 266-268: _insert_data_internal returned n.
Succeeded(r, n) ==
    [r EXCEPT !.total_inserted_count = n, !.log_status = "Success",
              !.log_message = "inserted", !.message_len = 40]

\* Lines 283-290: the arguments of create_upload_log.
LogEntry(r) ==
    [no |-> r.no, schema_name |-> r.schema_name, record_count |-> r.total_inserted_count,
     status |-> r.log_status, message |-> r.log_message, message_len |-> r.message_len]

\* An exception leaves the function running: the orchestrator catches it and
\* goes on to its finally clause, a direct caller of get_or_create_collection
\* gets it.
Raise(e) ==
    /\ run' = Except(run, e)
    /\ pc' = IF run.mode = "upload" THEN "log" ELSE "idle"

\* Lines 253-256 left out: the run goes on to connect without a schema.
StartUpload_NoSchemaCheck(names, sizes) ==
    /\ pc = "idle"
    /\ run.no = 0
    /\ \E name \in names, path_exists \in BOOLEAN, size \in sizes :
          LET r == [IdleRun EXCEPT !.no = run.no + 1, !.schema_name = name,
                                   !.batch_size = size]
          IN  IF ~path_exists
              THEN /\ run' = Except(r, "FileNotFoundError")
                   /\ pc' = "log"
              ELSE /\ run' = [r EXCEPT !.schema_def = get_schema_by_name(schema_store, name)]
                   /\ pc' = "connect"
    /\ UNCHANGED <<val, parked, schema_store, store_log, connections, engine, upload_logs, prov, ing, calls,
                   line_log, ensure_log, audit_calls>>

\* Lines 240-256: the locals, the os.path.exists check and get_schema_by_name.
\* The invocation modelled is the first one of the process.
StartUpload(names, sizes) ==
    /\ pc = "idle"
    /\ run.no = 0
    /\ \E name \in names, path_exists \in BOOLEAN, size \in sizes :
          LET r == [IdleRun EXCEPT !.no = run.no + 1, !.schema_name = name,
                                   !.batch_size = size]
          IN  IF ~path_exists
              THEN /\ run' = Except(r, "FileNotFoundError")
                   /\ pc' = "log"
              ELSE IF get_schema_by_name(schema_store, name) = <<>>
              THEN /\ run' = Except(r, "SchemaNotFound")
                   /\ pc' = "log"
              ELSE /\ run' = [r EXCEPT !.schema_def = get_schema_by_name(schema_store, name)]
                   /\ pc' = "connect"
    /\ UNCHANGED <<val, parked, schema_store, store_log, connections, engine, upload_logs, prov, ing, calls,
                   line_log, ensure_log, audit_calls>>

\* Lines 230-256 entered again in the same process, after an earlier
\* invocation has returned: milvus_host is the caller's choice, the locals
\* are fresh, the pymilvus connection registry is what the process has.
UploadAgain(names, sizes, hosts) ==
    /\ pc = "done"
    /\ run.no = 1
    /\ \E name \in names, path_exists \in BOOLEAN, size \in sizes, host \in hosts :
          LET r == [IdleRun EXCEPT !.no = run.no + 1, !.schema_name = name,
                                   !.batch_size = size, !.host = host]
          IN  IF ~path_exists
              THEN /\ run' = Except(r, "FileNotFoundError")
                   /\ pc' = "log"
              ELSE IF get_schema_by_name(schema_store, name) = <<>>
              THEN /\ run' = Except(r, "SchemaNotFound")
                   /\ pc' = "log"
              ELSE /\ run' = [r EXCEPT !.schema_def = get_schema_by_name(schema_store, name)]
                   /\ pc' = "connect"
    /\ prov' = IdleProv
    /\ ing' = IdleIng
    /\ UNCHANGED <<val, parked, schema_store, store_log, connections, engine, upload_logs, calls,
                   line_log, ensure_log, audit_calls>>

\* Lines 32-35 left out: connections.connect is called on every entry.
connect_to_milvus_Always(next_pc) ==
    \E ok \in BOOLEAN :
       /\ calls' = Append(calls, Call("connect", run.host, 0, ok, FALSE))
       /\ IF ok
          THEN /\ connections' = [connections EXCEPT ![run.alias] = run.host]
               /\ pc' = next_pc
               /\ UNCHANGED run
          ELSE /\ Raise("ConnectionError")
               /\ UNCHANGED connections

\* connect_to_milvus, lines 30-44: an alias already listed is reused.
connect_to_milvus(next_pc) ==
    IF connections[run.alias] # NoHost
    THEN /\ pc' = next_pc
         /\ UNCHANGED <<connections, run, calls>>
    ELSE \E ok \in BOOLEAN :
           /\ calls' = Append(calls, Call("connect", run.host, 0, ok, FALSE))
           /\ IF ok
              THEN /\ connections' = [connections EXCEPT ![run.alias] = run.host]
                   /\ pc' = next_pc
                   /\ UNCHANGED run
              ELSE /\ Raise("ConnectionError")
                   /\ UNCHANGED connections

\* Line 259.
Connect ==
    /\ pc = "connect"
    /\ connect_to_milvus("ensure")
    /\ UNCHANGED <<val, parked, schema_store, store_log, engine, upload_logs, prov, ing, line_log, ensure_log,
                   audit_calls>>

\* ------------------------------------------ get_or_create_collection

\* A direct call with a stored schema; connect_to_milvus is then entered with
\* its default host.
CallEnsure(names) ==
    /\ pc = "idle"
    /\ run.no < MaxCalls
    /\ \E name \in names :
          /\ get_schema_by_name(schema_store, name) # <<>>
          /\ run' = [IdleRun EXCEPT !.no = run.no + 1, !.mode = "ensure",
                                    !.schema_name = name,
                                    !.schema_def = get_schema_by_name(schema_store, name)]
    /\ pc' = "ensure"
    /\ UNCHANGED <<val, parked, schema_store, store_log, connections, engine, upload_logs, prov, ing, calls,
                   line_log, ensure_log, audit_calls>>

\* Lines 159-164: connect_to_milvus(alias) is entered again; it returns at
\* once when the alias is connected.
EnsureConnection ==
    /\ pc = "ensure"
    /\ connect_to_milvus("has")
    /\ UNCHANGED <<val, parked, schema_store, store_log, engine, upload_logs, prov, ing, line_log, ensure_log,
                   audit_calls>>

\* One finished call: what it returned (ok, the collection's uid) and the
\* create calls it issued.
EnsureEntry(ok, uid, p) ==
    [no |-> run.no, host |-> Using, name |-> run.schema_name, ok |-> ok, uid |-> uid,
     created |-> p.created, indexed |-> p.indexed, err |-> ""]

\* Lines 313-326: the locals of _insert_data_internal for a collection.
InsertSetup(schema) ==
    LET fields_to_extract ==
            SelectSeq(schema.fields,
                      LAMBDA f : ~(schema.auto_id /\ f.name = schema.primary_field))
    IN  [IdleIng EXCEPT !.fields = fields_to_extract,
                        !.batch_data = [i \in 1..Len(fields_to_extract) |-> <<>>]]

\* get_or_create_collection raises e.
EnsureRaises(e, p) ==
    /\ Raise(e)
    /\ ensure_log' = Append(ensure_log, [EnsureEntry(FALSE, 0, p) EXCEPT !.err = e])
    /\ prov' = IF run.mode = "upload" THEN p ELSE IdleProv
    /\ UNCHANGED ing

\* get_or_create_collection returns collection c: line 266 then enters
\* _insert_data_internal with it.
EnsureReturns(c, p) ==
    /\ ensure_log' = Append(ensure_log, EnsureEntry(TRUE, c.uid, p))
    /\ IF run.mode = "upload"
       THEN /\ ing' = InsertSetup(c.schema)
            /\ prov' = p
            /\ pc' = "read"
       ELSE /\ prov' = IdleProv
            /\ pc' = "idle"
            /\ UNCHANGED ing
    /\ UNCHANGED run

\* Line 192: the fields of the schema definition an index is created for.
VectorFields(schema_def) == SelectSeq(schema_def, LAMBDA f : f.is_vector)

\* has_collection answering False for a collection that exists.
has_collection_Blind(c) == FALSE

\* Line 166: the answer of utility.has_collection.
has_collection(c) == c.exists

\* The existing collection compared with the schema definition supplied: a
\* definition that maps to another schema, or to none, is an error.
OnExisting_Reconciled(c, p) ==
    IF map_schema_to_milvus(run.schema_def) # c.schema
    THEN EnsureRaises("SchemaMismatch", p)
    ELSE EnsureReturns(c, p)

\* Lines 167-171: the existing collection is returned as it is.
OnExisting(c, p) == EnsureReturns(c, p)

\* Lines 166-175: has_collection, then either the existing collection is
\* returned as it is or the schema is mapped for creation.
HasCollection ==
    /\ pc = "has"
    /\ \E ok \in BOOLEAN :
          /\ calls' = Append(calls, Call("has_collection", run.schema_name, 0, ok, FALSE))
          /\ IF ~ok
             THEN EnsureRaises("HasCollectionError", prov)
             ELSE IF has_collection(Collection)
             THEN OnExisting(Collection, prov)
             ELSE LET m == map_schema_to_milvus(run.schema_def)
                  IN  IF ~m.ok
                      THEN EnsureRaises("MappingError", prov)
                      ELSE /\ prov' = [prov EXCEPT !.milvus_schema = m]
                           /\ pc' = "create"
                           /\ UNCHANGED <<run, ing, ensure_log>>
    /\ UNCHANGED <<val, parked, schema_store, store_log, connections, engine, upload_logs, line_log, audit_calls>>

NextUid == Cardinality({hn \in Hosts \X SchemaNames : engine[hn[1]][hn[2]].exists}) + 1

\* What Collection(name, schema) can come to: on a name the engine does not
\* hold the collection is created or the call fails; on a name another caller
\* created in the meantime the engine rejects the creation, or the call fails,
\* or the existing collection is handed back.
CreateOutcomes(c) ==
    IF c.exists THEN {"exists", "fail", "handle"} ELSE {"ok", "fail"}

\* Lines 181-194 and 223-226: Collection(name, schema) creates the collection;
\* whatever it raises is logged and raised again.
CreateCollection ==
    /\ pc = "create"
    /\ \E res \in CreateOutcomes(Collection) :
          LET ok == res \in {"ok", "handle"}
              p == [prov EXCEPT !.created = TRUE, !.idx = 1]
              c == IF res = "handle" THEN Collection
                   ELSE [NoCollection EXCEPT !.exists = TRUE, !.uid = NextUid,
                                             !.schema = prov.milvus_schema]
          IN  /\ calls' = Append(calls, Call("create_collection", run.schema_name, 0, ok, FALSE))
              /\ IF ~ok
                 THEN /\ EnsureRaises(IF res = "exists" THEN "AlreadyExists"
                                      ELSE "CreateCollectionError", p)
                      /\ UNCHANGED engine
                 ELSE /\ engine' = [engine EXCEPT ![Using][run.schema_name] = c]
                      /\ IF VectorFields(run.schema_def) = <<>>
                         THEN EnsureReturns(c, p)
                         ELSE /\ pc' = "index"
                              /\ prov' = p
                              /\ UNCHANGED <<run, ing, ensure_log>>
    /\ UNCHANGED <<val, parked, schema_store, store_log, connections, upload_logs, line_log, audit_calls>>

\* The create_index failure logged only: the loop goes on to the next field.
OnIndexError_Continue(p) ==
    /\ IF prov.idx = Len(VectorFields(run.schema_def))
       THEN EnsureReturns(Collection, p)
       ELSE /\ pc' = "index"
            /\ prov' = p
            /\ UNCHANGED <<run, ing, ensure_log>>

\* Lines 216-219: a create_index failure is raised as RuntimeError; the
\* collection created at line 181 is left in the engine.
OnIndexError(p) == EnsureRaises("CreateIndexError", p)

\* Lines 196-221: one turn of the loop over the vector fields.
CreateIndex ==
    /\ pc = "index"
    /\ \E ok \in BOOLEAN :
          LET vector_fields == VectorFields(run.schema_def)
              vec_field_name == vector_fields[prov.idx].name
              p == [prov EXCEPT !.indexed = Append(@, vec_field_name), !.idx = @ + 1]
          IN  /\ calls' = Append(calls, Call("create_index", vec_field_name, 0, ok, FALSE))
              /\ IF ~ok
                 THEN /\ OnIndexError(p)
                      /\ UNCHANGED engine
                 ELSE /\ engine' = [engine EXCEPT
                                      ![Using][run.schema_name].indexes = @ \cup {vec_field_name}]
                      /\ IF prov.idx = Len(vector_fields)
                         THEN EnsureReturns(engine'[Using][run.schema_name], p)
                         ELSE /\ pc' = "index"
                              /\ prov' = p
                              /\ UNCHANGED <<run, ing, ensure_log>>
    /\ UNCHANGED <<val, parked, schema_store, store_log, connections, upload_logs, line_log, audit_calls>>

\* --------------------------------------------- _insert_data_internal

\* The test of line 393 written with > instead of >=.
BatchFull_Strict(i, batch_size) == i.batch_count > batch_size

\* Line 393: the batch is submitted once it holds batch_size records.
BatchFull(i, batch_size) == i.batch_count >= batch_size

\* Line 339 left out: the malformed line is not counted.
OnJSONDecodeError_Uncounted(i) == i

\* Lines 337-340: a line json.loads rejects.
OnJSONDecodeError(i) == [i EXCEPT !.skipped_records = @ + 1]

\* Lines 382-387: the record is counted as skipped; what its earlier fields
\* appended to batch_data stays there.
OnValidationError(i) == [i EXCEPT !.skipped_records = @ + 1, !.fld = 0, !.wrongdim = FALSE]

\* Line 378: batch_data[field_name].append(value).
AppendValue(i, v) ==
    [i EXCEPT !.batch_data[i.fld] = Append(@, [line |-> i.line_num, val |-> v])]

\* Line 380: every field of the record was appended.
RecordAccepted(i) == [i EXCEPT !.batch_count = @ + 1, !.fld = 0, !.wrongdim = FALSE]

EmptyBatch(i) == [k \in 1..Len(i.fields) |-> <<>>]

\* The locals are gone once the function returns or raises; its counters are
\* kept for the record.
Left(i) == [i EXCEPT !.batch_data = EmptyBatch(i), !.fld = 0, !.wrongdim = FALSE]

\* Lines 401-402 left out: the batch is not emptied after the insert.
OnInserted_KeepsBatch(i, insert_count) ==
    [i EXCEPT !.total_inserted_count = @ + insert_count]

\* Lines 398-403: a full batch was inserted.
OnInserted(i, insert_count) ==
    [i EXCEPT !.total_inserted_count = @ + insert_count,
              !.batch_data = EmptyBatch(i),
              !.batch_count = 0]

\* Lines 415-416: the last batch was inserted.
OnFinalInserted(i, insert_count) == [i EXCEPT !.total_inserted_count = @ + insert_count]

\* The insert failure logged and swallowed: the loop goes on with the batch.
OnInsertError_Swallowed ==
    /\ pc' = "read"
    /\ UNCHANGED <<run, ing>>

\* Lines 404-408 and 418-421: the insert failure is re-raised as RuntimeError.
OnInsertError ==
    /\ Raise("InsertError")
    /\ ing' = Left(ing)

\* The engine takes a column batch only if its columns have one length.
Ragged(batch_data) ==
    \E j, k \in 1..Len(batch_data) : Len(batch_data[j]) # Len(batch_data[k])

\* The rows of a column batch, each named by the line its first column came from.
RowsOf(batch_data) ==
    [j \in 1..Len(batch_data[1]) |-> [no |-> run.no, line |-> batch_data[1][j].line]]

\* collection.insert([batch_data[f] for f in fields_to_extract]): the call
\* and what the engine does with it.
insert(ok) ==
    /\ ok => ~Ragged(ing.batch_data)
    /\ calls' = Append(calls, Call("insert", run.schema_name, Len(ing.batch_data[1]), ok,
                                   Ragged(ing.batch_data)))
    /\ engine' = IF ok
                 THEN [engine EXCEPT
                         ![Using][run.schema_name].rows = @ \o RowsOf(ing.batch_data)]
                 ELSE engine

LineKinds == {"blank", "malformed", "nonobject", "object"}

\* Lines 330-340 and the first test of line 345 on a JSON value that is no
\* object: the next line of the file.
ReadLine ==
    /\ pc = "read"
    /\ ing.line_num < MaxLines
    /\ \E kind \in LineKinds :
          LET i == [ing EXCEPT !.line_num = @ + 1]
          IN  CASE kind = "blank" ->
                     /\ ing' = i
                     /\ line_log' = Append(line_log, Line("blank", "blank", FALSE))
                     /\ pc' = "read"
                [] kind = "malformed" ->
                     /\ ing' = OnJSONDecodeError(i)
                     /\ line_log' = Append(line_log, Line("skip", "json", FALSE))
                     /\ pc' = "read"
                [] kind = "nonobject" ->
                     /\ ing' = OnValidationError(i)
                     /\ line_log' = Append(line_log, Line("skip", "nonobject", FALSE))
                     /\ pc' = "read"
                [] OTHER ->
                     /\ ing' = [i EXCEPT !.fld = 1]
                     /\ line_log' = line_log
                     /\ pc' = "field"
    /\ UNCHANGED <<val, parked, schema_store, store_log, connections, engine, upload_logs, run, prov, calls,
                   ensure_log, audit_calls>>

\* Lines 344-390: one turn of the loop over fields_to_extract, and after the
\* last field the batch_count increment and the test of line 393.
ProcessField ==
    /\ pc = "field"
    /\ \E v \in RichInputs(ing.fields[ing.fld].dtype) :
          LET milvus_field == ing.fields[ing.fld]
              r == ProcessValue(milvus_field, v)
              wd == ing.wrongdim \/ WrongDimension(milvus_field, v)
          IN  CASE r.res = "raise" ->
                     /\ Raise("OverflowError")
                     /\ line_log' = Append(line_log, Line("raise", "overflow", wd))
                     /\ ing' = Left(ing)
                [] r.res = "skip" ->
                     /\ ing' = OnValidationError(ing)
                     /\ line_log' = Append(line_log,
                            Line("skip", IF v = Absent THEN "missing" ELSE "coerce", wd))
                     /\ pc' = "read"
                     /\ UNCHANGED run
                [] OTHER ->
                     IF ing.fld < Len(ing.fields)
                     THEN /\ ing' = [AppendValue(ing, r.val) EXCEPT !.fld = @ + 1,
                                                                    !.wrongdim = wd]
                          /\ pc' = "field"
                          /\ UNCHANGED <<run, line_log>>
                     ELSE /\ ing' = RecordAccepted(AppendValue(ing, r.val))
                          /\ line_log' = Append(line_log, Line("accept", "ok", wd))
                          /\ pc' = IF BatchFull(ing', run.batch_size) THEN "insert" ELSE "read"
                          /\ UNCHANGED run
    /\ UNCHANGED <<val, parked, schema_store, store_log, connections, engine, upload_logs, prov, calls,
                   ensure_log, audit_calls>>

\* Lines 393-408: collection.insert of a full batch; a failure is re-raised.
InsertBatch ==
    /\ pc = "insert"
    /\ \E ok \in BOOLEAN :
          /\ insert(ok)
          /\ IF ok
             THEN /\ ing' = OnInserted(ing, Len(ing.batch_data[1]))
                  /\ pc' = "read"
                  /\ UNCHANGED run
             ELSE OnInsertError
    /\ UNCHANGED <<val, parked, schema_store, store_log, connections, upload_logs, prov, line_log, ensure_log,
                   audit_calls>>

\* Lines 330 and 411: the file is exhausted.
EndOfFile ==
    /\ pc = "read"
    /\ pc' = IF ing.batch_count > 0 THEN "final_insert" ELSE "flush"
    /\ UNCHANGED <<val, parked, schema_store, store_log, connections, engine, upload_logs, run, prov, ing, calls,
                   line_log, ensure_log, audit_calls>>

\* Lines 411-421: collection.insert of the records left over.
InsertFinalBatch ==
    /\ pc = "final_insert"
    /\ \E ok \in BOOLEAN :
          /\ insert(ok)
          /\ IF ok
             THEN /\ ing' = OnFinalInserted(ing, Len(ing.batch_data[1]))
                  /\ pc' = "flush"
                  /\ UNCHANGED run
             ELSE OnInsertError
    /\ UNCHANGED <<val, parked, schema_store, store_log, connections, upload_logs, prov, line_log, ensure_log,
                   audit_calls>>

\* A flush failure raised out of _insert_data_internal.
Flush_Fatal ==
    /\ pc = "flush"
    /\ \E ok \in BOOLEAN :
          /\ calls' = Append(calls, Call("flush", run.schema_name, 0, ok, FALSE))
          /\ IF ok
             THEN /\ run' = Succeeded(run, ing.total_inserted_count)
                  /\ pc' = "log"
             ELSE Raise("FlushError")
    /\ ing' = Left(ing)
    /\ UNCHANGED <<val, parked, schema_store, store_log, connections, engine, upload_logs, prov, line_log,
                   ensure_log, audit_calls>>

\* Lines 426-434 and 266-268: collection.flush, whose failure is only logged,
\* then the count is returned to the orchestrator.
Flush ==
    /\ pc = "flush"
    /\ \E ok \in BOOLEAN :
          calls' = Append(calls, Call("flush", run.schema_name, 0, ok, FALSE))
    /\ run' = Succeeded(run, ing.total_inserted_count)
    /\ ing' = Left(ing)
    /\ pc' = "log"
    /\ UNCHANGED <<val, parked, schema_store, store_log, connections, engine, upload_logs, prov, line_log,
                   ensure_log, audit_calls>>

\* -------------------------------------------------- create_upload_log

\* The row kept although db.commit failed (no rollback).
create_upload_log_NoRollback(logs, entry, committed) == Append(logs, entry)

\* schema_manager.create_upload_log: the row is stored when db.commit
\* succeeds; a failure is rolled back and None is returned.
create_upload_log(logs, entry, committed) ==
    IF committed THEN Append(logs, entry) ELSE logs

\* Lines 277 and 304: what the caller of upload_jsonl_to_milvus gets, the
\* exception raised again or the tuple returned.
Outcome(r) ==
    [raised |-> r.error,
     returned |-> IF r.error = "" THEN <<r.total_inserted_count, r.log_status, r.log_message>>
                  ELSE <<>>]

\* The exception of create_upload_log taking the place of the run's outcome.
OnLogError_Masking(r) == Except(r, "LogError")

\* Lines 292-294: an exception of create_upload_log is logged and dropped.
OnLogError(r) == r

\* What the call of create_upload_log comes to: the row is stored, db.commit
\* fails and is rolled back inside it, or it raises before its try block.
LogResults == {"stored", "rolled_back", "raised"}

\* Lines 279-304: the finally clause; the invocation then returns or re-raises.
WriteLog ==
    /\ pc = "log"
    /\ \E res \in LogResults :
          /\ upload_logs' = IF res = "raised" THEN upload_logs
                            ELSE create_upload_log(upload_logs, LogEntry(run), res = "stored")
          /\ audit_calls' = Append(audit_calls,
                                   [no |-> run.no, ok |-> res = "stored", res |-> res,
                                    outcome |-> Outcome(run)])
          /\ run' = IF res = "raised" THEN OnLogError(run) ELSE run
    /\ pc' = "done"
    /\ UNCHANGED <<val, parked, schema_store, store_log, connections, engine, prov, ing, calls, line_log,
                   ensure_log>>

\* ------------------------------------------------------ specifications

\* The batch_size values an invocation is given; the function does not check
\* the parameter, so 0 and a negative value are among them.
BatchSizes == (-1)..MaxBatch

\* The schema names an upload is invoked with: a schema with one vector
\* field, one the mapper rejects and one that is not in the store.
UploadNames == {"docs", "flat", "ghost"}

\* One invocation of upload_jsonl_to_milvus, on a file of arbitrary lines.
Next ==
    \/ StartUpload(UploadNames, BatchSizes)
    \/ Connect
    \/ EnsureConnection
    \/ HasCollection
    \/ CreateCollection
    \/ CreateIndex
    \/ ReadLine
    \/ ProcessField
    \/ InsertBatch
    \/ EndOfFile
    \/ InsertFinalBatch
    \/ Flush
    \/ WriteLog

Spec == Init /\ [][Next]_vars

\* Successive direct calls of get_or_create_collection.
NextEnsure ==
    \/ CallEnsure(SchemaNames)
    \/ EnsureConnection
    \/ HasCollection
    \/ CreateCollection
    \/ CreateIndex

SpecEnsure == Init /\ [][NextEnsure]_vars

\* One invocation of upload_jsonl_to_milvus on the schema whose primary key
\* is flagged 'auto_generate'.
NextAuto ==
    \/ StartUpload({"auto"}, BatchSizes)
    \/ Connect
    \/ EnsureConnection
    \/ HasCollection
    \/ CreateCollection
    \/ CreateIndex
    \/ ReadLine
    \/ ProcessField
    \/ InsertBatch
    \/ EndOfFile
    \/ InsertFinalBatch
    \/ Flush
    \/ WriteLog

SpecAuto == Init /\ [][NextAuto]_vars

\* Two invocations of upload_jsonl_to_milvus in one process, as the UI makes
\* them: the first, on the default host, opens the connection and fails in
\* the mapper; the second names a host of the caller's choice.
NextHosts ==
    \/ StartUpload({"flat"}, {MaxBatch})
    \/ UploadAgain({"docs"}, {MaxBatch}, Hosts)
    \/ Connect
    \/ EnsureConnection
    \/ HasCollection
    \/ CreateCollection
    \/ CreateIndex
    \/ ReadLine
    \/ ProcessField
    \/ InsertBatch
    \/ EndOfFile
    \/ InsertFinalBatch
    \/ Flush
    \/ WriteLog

SpecHosts == Init /\ [][NextHosts]_vars

\* ------------------------------------------ validate_schema_definition

\* A field dictionary as a caller passes it: is_vector is "absent" (no such
\* key), "null", "false" or "true"; dim 0 stands for an absent / None 'dim'.
Dict(n, t, pk, vec, d) ==
    [name |-> n, type |-> t, is_primary |-> pk, is_vector |-> vec, dim |-> d]

\* Line 157.
valid_types == {"str", "int", "float", "bool", "vector<float>"}

\* Lines 164-204: the checks of one field in the order of the code; err is ""
\* when the field passes, field is the dictionary as the checks leave it.
CheckField(field, field_names) ==
    LET is_vector == field.is_vector = "true"
        Fails(e) == [err |-> e, field |-> field]
    IN  IF field.name = "" THEN Fails("name")
        ELSE IF field.type = "" THEN Fails("type")
        ELSE IF field.name \in field_names THEN Fails("duplicate")
        ELSE IF field.type \notin valid_types THEN Fails("invalid_type")
        ELSE IF field.is_primary /\ field.type \notin {"int", "str"} THEN Fails("primary_type")
        ELSE IF is_vector
        THEN IF field.type # "vector<float>" THEN Fails("vector_type")
             ELSE IF field.dim <= 0 THEN Fails("dim_required")
             ELSE Fails("")
        ELSE IF field.is_vector \in {"absent", "null"} /\ field.type = "vector<float>"
        THEN [err |-> "is_vector_missing", field |-> [field EXCEPT !.is_vector = "true"]]
        ELSE IF field.dim # 0 THEN Fails("dim_on_scalar")
        ELSE Fails("")

\* The final checks with the test for no primary key left out.
PrimaryKeyError_AtMostOne(primary_key_count) ==
    IF primary_key_count > 1 THEN "many_primary" ELSE ""

\* Lines 207-210.
PrimaryKeyError(primary_key_count) ==
    IF primary_key_count = 0 THEN "no_primary"
    ELSE IF primary_key_count > 1 THEN "many_primary"
    ELSE ""

\* Lines 160-215: the loop from field i on, then the final checks.
RECURSIVE ValidateFrom(_, _, _, _)
ValidateFrom(fields, i, field_names, primary_key_count) ==
    IF i > Len(fields)
    THEN [err |-> PrimaryKeyError(primary_key_count), fields |-> fields]
    ELSE LET c == CheckField(fields[i], field_names)
         IN  IF c.err # ""
             THEN [err |-> c.err, fields |-> [fields EXCEPT ![i] = c.field]]
             ELSE ValidateFrom(fields, i + 1, field_names \cup {fields[i].name},
                               primary_key_count + (IF fields[i].is_primary THEN 1 ELSE 0))

\* The ValueError raised (err) or "" for True, and the list as the call
\* leaves it.
validate_schema_definition(fields) ==
    IF fields = <<>> THEN [err |-> "empty", fields |-> fields]
    ELSE ValidateFrom(fields, 1, {}, 0)

\* The descriptor map_schema_to_milvus reads out of a stored dictionary:
\* field.get('is_vector', False) is taken for its truth value.
AsStored(fields) ==
    [i \in 1..Len(fields) |->
        FieldDef(fields[i].name, fields[i].type, fields[i].is_primary,
                 fields[i].is_vector = "true", fields[i].dim)]

\* Lines 87-112: the field runs into the final else of the type table.
UnsupportedType(field) ==
    /\ ~field.is_vector
    /\ field.type \notin {"str", "string", "varchar", "int", "int64", "float", "float32",
                          "bool", "boolean"}

\* The dictionaries the field lists are made of.
FieldInputs ==
    {Dict(n, t, pk, vec, d) :
        n \in {"a", "b"}, t \in {"int", "float", "vector<float>"}, pk \in BOOLEAN,
        vec \in {"absent", "null", "false", "true"}, d \in {0, 2}}
    \cup {Dict("", "int", TRUE, "absent", 0), Dict("a", "", TRUE, "absent", 0),
          Dict("a", "int64", TRUE, "absent", 0)}

FieldLists == UNION {[1..n -> FieldInputs] : n \in 0..MaxFields}

\* A caller holds a field list.
InitValidate ==
    /\ schema_store = InitialStore
    /\ store_log = <<>>
    /\ connections = [a \in Aliases |-> NoHost]
    /\ engine = [h \in Hosts |-> [n \in SchemaNames |-> NoCollection]]
    /\ upload_logs = <<>>
    /\ pc = "idle"
    /\ run = IdleRun
    /\ prov = IdleProv
    /\ ing = IdleIng
    /\ calls = <<>>
    /\ line_log = <<>>
    /\ ensure_log = <<>>
    /\ audit_calls = <<>>
    /\ parked = NoThread
    /\ \E fields \in FieldLists :
          val = [IdleVal EXCEPT !.given = fields, !.fields = fields, !.step = "call"]

\* validate_schema_definition(fields) is called.
Validate ==
    /\ val.step = "call"
    /\ LET r == validate_schema_definition(val.fields)
       IN  val' = [val EXCEPT !.fields = r.fields,
                              !.result = IF r.err = "" THEN "True" ELSE r.err,
                              !.step = "validated"]
    /\ UNCHANGED <<parked, schema_store, store_log, connections, engine, upload_logs, pc, run, prov, ing,
                   calls, line_log, ensure_log, audit_calls>>

\* create_schema stores the validated list (lines 47-51) and
\* get_or_create_collection later maps what is stored (line 175).
MapValidated ==
    /\ val.step = "validated"
    /\ val.result = "True"
    /\ val' = [val EXCEPT !.mapped = map_schema_to_milvus(AsStored(val.fields)),
                          !.step = "mapped"]
    /\ UNCHANGED <<parked, schema_store, store_log, connections, engine, upload_logs, pc, run, prov, ing,
                   calls, line_log, ensure_log, audit_calls>>

NextValidate ==
    \/ Validate
    \/ MapValidated

SpecValidate == InitValidate /\ [][NextValidate]_vars

\* Two calls of get_or_create_collection for one schema are entered at the
\* same time (two requests of the application); the second waits in parked.
StartRace(names) ==
    /\ pc = "idle"
    /\ run.no = 0
    /\ parked = NoThread
    /\ \E name \in names :
          LET r == [IdleRun EXCEPT !.mode = "ensure", !.schema_name = name,
                                   !.schema_def = get_schema_by_name(schema_store, name)]
          IN  /\ run' = [r EXCEPT !.no = 1]
              /\ parked' = [pc |-> "ensure", run |-> [r EXCEPT !.no = 2], prov |-> IdleProv]
    /\ pc' = "ensure"
    /\ UNCHANGED <<val, schema_store, store_log, connections, engine, upload_logs, prov, ing, calls,
                   line_log, ensure_log, audit_calls>>

\* The other call gets the processor: the two calls share the connection
\* registry and the engine, each has its own locals.
Switch ==
    /\ parked # NoThread
    /\ pc' = parked.pc
    /\ run' = parked.run
    /\ prov' = parked.prov
    /\ parked' = [pc |-> pc, run |-> run, prov |-> prov]
    /\ UNCHANGED <<val, schema_store, store_log, connections, engine, upload_logs, ing, calls, line_log,
                   ensure_log, audit_calls>>

RaceNames == {"docs", "pair"}

\* Two concurrent calls of get_or_create_collection.
NextRace ==
    \/ StartRace(RaceNames)
    \/ Switch
    \/ EnsureConnection
    \/ HasCollection
    \/ CreateCollection
    \/ CreateIndex

SpecRace == Init /\ [][NextRace]_vars

\* ------------------------------------ create_schema, delete_schema_by_name

\* The field lists create_schema is called with: none, one that the
\* validator and the mapper accept, one that the validator accepts and the
\* mapper rejects, one without a primary key.
StoreFieldLists ==
    { <<>>,
      << Dict("a", "int", TRUE, "false", 0), Dict("b", "vector<float>", FALSE, "true", 2) >>,
      << Dict("a", "int", TRUE, "false", 0), Dict("b", "vector<float>", FALSE, "false", 0) >>,
      << Dict("a", "float", FALSE, "false", 0) >> }

\* create_schema with lines 41-46 left out: the list is stored as given.
create_schema_Unvalidated(store, name, fields, commit_ok) ==
    IF name = "" THEN [err |-> "name_required", store |-> store]
    ELSE IF fields = <<>> THEN [err |-> "fields_required", store |-> store]
    ELSE IF RowsNamed(store, name) # {} THEN [err |-> "exists", store |-> store]
    ELSE IF ~commit_ok THEN [err |-> "commit_failed", store |-> store]
    ELSE [err |-> "", store |-> Append(store, SchemaRow(name, AsStored(fields)))]

\* create_schema, lines 30-66: the ValueError raised (err, "" for a returned
\* row) and the table as the call leaves it. The commit of line 55 raises
\* IntegrityError on a name the table holds (the unique constraint of
\* models.py lines 10 and 23) and may fail otherwise; both are rolled back.
create_schema(store, name, fields, commit_ok) ==
    IF name = "" THEN [err |-> "name_required", store |-> store]
    ELSE IF fields = <<>> THEN [err |-> "fields_required", store |-> store]
    ELSE IF validate_schema_definition(fields).err # ""
    THEN [err |-> validate_schema_definition(fields).err, store |-> store]
    ELSE IF RowsNamed(store, name) # {} THEN [err |-> "exists", store |-> store]
    ELSE IF ~commit_ok THEN [err |-> "commit_failed", store |-> store]
    ELSE [err |-> "", store |-> Append(store, SchemaRow(name, AsStored(fields)))]

\* delete_schema_by_name, lines 85-102: the row get_schema_by_name finds is
\* deleted; res is what the call returns, "ValueError" when it raises.
delete_schema_by_name(store, name, commit_ok) ==
    IF RowsNamed(store, name) = {} THEN [res |-> "False", store |-> store]
    ELSE IF ~commit_ok THEN [res |-> "ValueError", store |-> store]
    ELSE LET i == CHOOSE i \in RowsNamed(store, name) :
                      \A j \in RowsNamed(store, name) : i <= j
         IN  [res |-> "True",
              store |-> SubSeq(store, 1, i - 1) \o SubSeq(store, i + 1, Len(store))]

\* One call recorded: the table before and after it.
StoreEntry(op, name, fields, res, after) ==
    [op |-> op, name |-> name, fields |-> fields, res |-> res,
     before |-> schema_store, after |-> after]

CreateSchema(names, lists) ==
    /\ pc = "idle"
    /\ Len(store_log) < MaxStoreOps
    /\ \E name \in names, fields \in lists, commit_ok \in BOOLEAN :
          LET r == create_schema(schema_store, name, fields, commit_ok)
          IN  /\ schema_store' = r.store
              /\ store_log' = Append(store_log,
                                     StoreEntry("create", name, fields, r.err, r.store))
    /\ UNCHANGED <<val, parked, connections, engine, upload_logs, pc, run, prov, ing, calls,
                   line_log, ensure_log, audit_calls>>

DeleteSchema(names) ==
    /\ pc = "idle"
    /\ Len(store_log) < MaxStoreOps
    /\ \E name \in names, commit_ok \in BOOLEAN :
          LET r == delete_schema_by_name(schema_store, name, commit_ok)
          IN  /\ schema_store' = r.store
              /\ store_log' = Append(store_log,
                                     StoreEntry("delete", name, <<>>, r.res, r.store))
    /\ UNCHANGED <<val, parked, connections, engine, upload_logs, pc, run, prov, ing, calls,
                   line_log, ensure_log, audit_calls>>

\* The names the schema table is edited for.
StoreNames == {"docs", "ghost"}

\* Schemas are created and deleted between direct calls of
\* get_or_create_collection.
NextStore ==
    \/ CreateSchema(StoreNames \cup {""}, StoreFieldLists)
    \/ DeleteSchema(StoreNames)
    \/ CallEnsure({"docs"})
    \/ EnsureConnection
    \/ HasCollection
    \/ CreateCollection
    \/ CreateIndex

SpecStore == Init /\ [][NextStore]_vars

\* ------------------------------------------------------------- claims

\* _insert_data_internal returned its count to the orchestrator.
IngestReturned == pc \in {"log", "done"} /\ run.log_status = "Success"

NonBlankLines == Cardinality({k \in 1..Len(line_log) : line_log[k].out # "blank"})

AcceptedLines == Cardinality({k \in 1..Len(line_log) : line_log[k].out = "accept"})

\* The rows the engine holds that invocation n committed to collection name.
CommittedRows(n, name) ==
    IF connections[DEFAULT_ALIAS] = NoHost THEN 0
    ELSE LET rows == engine[connections[DEFAULT_ALIAS]][name].rows
         IN  Cardinality({j \in 1..Len(rows) : rows[j].no = n})

Inserts == SelectSeq(calls, LAMBDA c : c.op = "insert")

RECURSIVE SumInserted(_)
SumInserted(cs) ==
    IF cs = <<>> THEN 0
    ELSE (IF Head(cs).ok THEN Head(cs).n ELSE 0) + SumInserted(Tail(cs))

\* C1: when ingest returns, the count it returns plus the records it counted
\* as skipped is the number of non-blank lines of the source.
C1_CommittedPlusSkipped ==
    IngestReturned =>
        run.total_inserted_count + ing.skipped_records = NonBlankLines

C1_Witness ==
    /\ IngestReturned
    /\ run.total_inserted_count > 0
    /\ \E k \in 1..Len(line_log) : line_log[k].out = "blank"
    /\ \E k \in 1..Len(line_log) : line_log[k].why = "json"
    /\ \E k \in 1..Len(line_log) : line_log[k].why = "missing"

\* C2: between two records of a run, every column of the batch has as many
\* values as records were accepted since the last commit.
C2_ColumnsAligned ==
    pc \in {"read", "insert", "final_insert", "flush"} =>
        \A k \in 1..Len(ing.batch_data) : Len(ing.batch_data[k]) = ing.batch_count

\* C3: a record whose vector is a list of numbers of the wrong length is
\* skipped, and the run goes on.
C3_WrongDimensionSkipped ==
    \A k \in 1..Len(line_log) : line_log[k].wrongdim => line_log[k].out = "skip"

\* No line read so far is one the loop mishandles for a reason of its own (a
\* vector of the wrong length taken as it is, an exception other than
\* ValueError / TypeError).
PlainLines ==
    \A k \in 1..Len(line_log) : ~line_log[k].wrongdim /\ line_log[k].why # "overflow"

\* C4: the record count of the upload log is the number of records the run
\* committed to the engine, also when an insert failure ended the run.
C4_LoggedCountIsCommitted ==
    \A k \in 1..Len(upload_logs) :
        PlainLines =>
            upload_logs[k].record_count =
                CommittedRows(upload_logs[k].no, upload_logs[k].schema_name)

\* C5 as stated: once the invocation is over, exactly one upload log row is
\* stored for it.
C5_OneRowStored ==
    pc = "done" =>
        Cardinality({k \in 1..Len(upload_logs) : upload_logs[k].no = run.no}) = 1

\* C5 as amended: every invocation calls create_upload_log exactly once,
\* whichever step ended it, with its final count, status and message; the row
\* is stored once when that call's commit succeeds and not at all when it
\* fails, and nothing is stored before the invocation is over.
C5_OneLogCall ==
    IF pc = "done"
    THEN /\ Len(audit_calls) = 1
         /\ audit_calls[1].no = run.no
         /\ upload_logs = IF audit_calls[1].ok THEN <<LogEntry(run)>> ELSE <<>>
    ELSE audit_calls = <<>> /\ upload_logs = <<>>

C5_Witness ==
    /\ pc = "done"
    /\ run.error = "InsertError"
    /\ Len(upload_logs) = 1
    /\ upload_logs[1].status = "Failed"

\* C6: a failed insert is the last engine call of the run: no retry, no
\* further insert, no flush; the run ends with the insert error, and the rows
\* of the batches inserted before stay in the engine.
C6_CommitFailureAborts ==
    /\ \A k \in 1..Len(calls) :
          (calls[k].op = "insert" /\ ~calls[k].ok) =>
              /\ k = Len(calls)
              /\ pc \in {"log", "done"}
              /\ run.error = "InsertError"
    /\ run.no > 0 => CommittedRows(run.no, run.schema_name) = SumInserted(calls)

C6_Witness ==
    /\ pc = "done"
    /\ Len(Inserts) = 2
    /\ Inserts[1].ok /\ ~Inserts[2].ok /\ ~Inserts[2].ragged
    /\ CommittedRows(run.no, run.schema_name) = Inserts[1].n

\* C7: with an engine that rejects a batch only when its columns differ in
\* length, a file of blank lines, malformed lines, records missing a field and
\* valid records never ends the run with an insert error.
C7_BadLinesNeverAbort ==
    ( /\ \A k \in 1..Len(line_log) :
             /\ line_log[k].why \in {"blank", "json", "missing", "ok"}
             /\ ~line_log[k].wrongdim
      /\ \A k \in 1..Len(calls) :
             (calls[k].op = "insert" /\ ~calls[k].ok) => calls[k].ragged )
    => run.error \notin {"InsertError", "OverflowError"}

\* C8: N valid records and batch size B >= 1 give ceil(N/B) insert calls, B
\* records in each of the first floor(N/B), N mod B in the last one if that
\* is not 0, and a returned count of N.
C8_BatchesOfB ==
    ( /\ IngestReturned
      /\ run.batch_size >= 1
      /\ \A k \in 1..Len(line_log) :
             /\ line_log[k].out \in {"blank", "accept"}
             /\ ~line_log[k].wrongdim )
    => LET N == AcceptedLines
           B == run.batch_size
       IN  /\ Len(Inserts) = (N + B - 1) \div B
           /\ \A k \in 1..Len(Inserts) :
                 /\ Inserts[k].ok
                 /\ Inserts[k].n = IF k <= N \div B THEN B ELSE N % B
           /\ run.total_inserted_count = N

C8_Witness ==
    /\ IngestReturned
    /\ \A k \in 1..Len(line_log) : line_log[k].out = "accept" /\ ~line_log[k].wrongdim
    /\ AcceptedLines = 3
    /\ run.batch_size = 2
    /\ Len(Inserts) = 2
    /\ Inserts[1].n = 2 /\ Inserts[2].n = 1

Occurrences(seq, x) == Cardinality({k \in 1..Len(seq) : seq[k] = x})

\* C9: two calls of get_or_create_collection with the same name and schema
\* that both return, return the same collection, and between them issue at
\* most one create call for the collection and at most one create_index call
\* for each vector field.
C9_EnsureIdempotent ==
    \A j, k \in 1..Len(ensure_log) :
        LET a == ensure_log[j]
            b == ensure_log[k]
        IN  (j < k /\ a.ok /\ b.ok /\ a.name = b.name /\ a.host = b.host) =>
                /\ a.uid = b.uid
                /\ ~(a.created /\ b.created)
                /\ \A f \in {"vec", "a", "b", "v"} :
                      Occurrences(a.indexed, f) + Occurrences(b.indexed, f) <= 1

C9_Witness ==
    /\ pc = "idle"
    /\ Len(ensure_log) >= 2
    /\ ensure_log[1].ok /\ ensure_log[2].ok
    /\ ensure_log[1].name = "pair" /\ ensure_log[2].name = "pair"
    /\ ensure_log[1].created
    /\ ensure_log[1].indexed = <<"a", "b">>
    /\ ensure_log[2].indexed = <<>>

\* C10: a call of get_or_create_collection that returns, returns a collection
\* in which every vector field of its schema has an index.
C10_ReturnedCollectionIndexed ==
    \A k \in 1..Len(ensure_log) :
        ensure_log[k].ok =>
            LET c == engine[ensure_log[k].host][ensure_log[k].name]
                vector_fields == VectorFields(get_schema_by_name(schema_store, ensure_log[k].name))
            IN  \A j \in 1..Len(vector_fields) : vector_fields[j].name \in c.indexes

\* C11: a call of get_or_create_collection whose creation the engine rejected
\* because another call had created the collection in the meantime returns
\* the collection.
C11_LoserReturnsHandle ==
    \A k \in 1..Len(ensure_log) :
        ( /\ ensure_log[k].created
          /\ ensure_log[k].err = "AlreadyExists" ) => ensure_log[k].ok

\* C12: a run whose schema the mapper rejects ends with the mapping error
\* before any engine call is issued.
C12_MappingBeforeEngine == run.error = "MappingError" => calls = <<>>

\* The stored form of the list validate_schema_definition accepted.
Validated == AsStored(val.given)

\* C13: no field of a list validate_schema_definition accepted runs into the
\* unsupported-type error of map_schema_to_milvus.
C13_ValidatedTypesMap ==
    val.step = "mapped" =>
        \A i \in 1..Len(Validated) : ~UnsupportedType(Validated[i])

PrimaryCount(fields) == Cardinality({i \in 1..Len(fields) : fields[i].is_primary})

\* A field list that keeps the invariants of a schema: unique non-empty
\* names, types of the closed set, each field either a vector (is_vector
\* true, the vector type, a positive dim) or a scalar without dim, and one
\* primary key of type int or str.
WellFormed(fields) ==
    /\ fields # <<>>
    /\ \A i \in 1..Len(fields) :
          /\ fields[i].name # ""
          /\ fields[i].type \in valid_types
          /\ \A j \in 1..Len(fields) : fields[j].name = fields[i].name => j = i
          /\ \/ /\ fields[i].is_vector = "true"
                /\ fields[i].type = "vector<float>"
                /\ fields[i].dim > 0
             \/ /\ fields[i].is_vector \in {"absent", "false"}
                /\ fields[i].type # "vector<float>"
                /\ fields[i].dim = 0
          /\ fields[i].is_primary => fields[i].type \in {"int", "str"}
    /\ PrimaryCount(fields) = 1

\* C14: validate_schema_definition returns True on every well-formed list,
\* and raises on every list with no primary key or more than one.
C14_ValidateDecides ==
    val.step \in {"validated", "mapped"} =>
        /\ WellFormed(val.given) => val.result = "True"
        /\ PrimaryCount(val.given) # 1 => val.result # "True"

C14_Witness ==
    /\ val.step = "validated"
    /\ val.result = "True"
    /\ WellFormed(val.given)
    /\ Len(val.given) = 2
    /\ \E i \in 1..2 : val.given[i].is_vector = "true"

\* C15: validate_schema_definition raises on every list with a field of type
\* 'vector<float>' whose is_vector is not true.
C15_VectorTypeNeedsFlag ==
    val.step \in {"validated", "mapped"} =>
        ( (\E i \in 1..Len(val.given) :
              /\ val.given[i].type = "vector<float>"
              /\ val.given[i].is_vector # "true")
          => val.result # "True" )

\* C16: after validate_schema_definition, returned or raised, the list and
\* its dictionaries are what they were before the call.
C16_ValidateLeavesInput ==
    val.step \in {"validated", "mapped"} => val.fields = val.given

\* C17: whatever becomes of the call of create_upload_log, the caller of
\* upload_jsonl_to_milvus gets the outcome the run had before the call: the
\* same tuple returned, or the same error raised.
C17_LogFailureKeepsOutcome ==
    pc = "done" =>
        /\ Len(audit_calls) = 1
        /\ Outcome(run) = audit_calls[1].outcome
        /\ (run.error = "") = (run.log_status = "Success")

C17_Witness ==
    /\ pc = "done"
    /\ audit_calls[1].res = "raised"
    /\ Outcome(run).returned = <<2, "Success", "inserted">>

\* The place of an engine call in the order of the steps.
StepOf(op) ==
    CASE op = "connect" -> 1
      [] op \in {"has_collection", "create_collection", "create_index"} -> 2
      [] OTHER -> 3

OpRank(op) ==
    CASE op = "connect" -> 1
      [] op = "has_collection" -> 2
      [] op = "create_collection" -> 3
      [] op = "create_index" -> 4
      [] op = "insert" -> 5
      [] OTHER -> 6

\* C18: the steps run in the order resolve, connect, provision, ingest, each
\* only after the one before it succeeded: no engine call without a schema,
\* none after a failed connect, and none of a later step after a failed call
\* of an earlier one.
C18_StepsInOrder ==
    /\ calls # <<>> => run.schema_def # <<>>
    /\ run.error \in {"FileNotFoundError", "SchemaNotFound"} => calls = <<>>
    /\ run.error = "ConnectionError" =>
           calls = <<Call("connect", run.host, 0, FALSE, FALSE)>>
    /\ \A j, k \in 1..Len(calls) :
           j < k => /\ OpRank(calls[j].op) <= OpRank(calls[k].op)
                    /\ calls[j].ok
    /\ \A k \in 1..Len(calls) :
           StepOf(calls[k].op) > 1 => calls[1] = Call("connect", run.host, 0, TRUE, FALSE)
    /\ \A k \in 1..Len(calls) :
           StepOf(calls[k].op) = 3 => Len(ensure_log) = 1 /\ ensure_log[1].ok

C18_Witness ==
    /\ pc = "done"
    /\ run.error = "ConnectionError"
    /\ Len(calls) = 1
    /\ ensure_log = <<>>

Connects == SelectSeq(calls, LAMBDA c : c.op = "connect")

\* C19: over successive calls, connections.connect is issued for the alias
\* only while the alias is not connected: after a connect call that
\* succeeded no further one is issued, and every call made before the alias
\* was connected starts with one.
C19_ConnectOnlyWhenUnconnected ==
    /\ \A j, k \in 1..Len(calls) :
           (j < k /\ calls[j].op = "connect" /\ calls[j].ok) => calls[k].op # "connect"
    /\ \A k \in 1..Len(Connects) : k < Len(Connects) => ~Connects[k].ok
    /\ (connections[DEFAULT_ALIAS] # NoHost) =
           (Connects # <<>> /\ Connects[Len(Connects)].ok)
    /\ (pc = "idle" /\ connections[DEFAULT_ALIAS] = NoHost) => Len(Connects) = run.no

C19_Witness ==
    /\ pc = "idle"
    /\ Len(ensure_log) = 2
    /\ ensure_log[1].ok /\ ensure_log[2].ok
    /\ Len(Connects) = 1
    /\ calls[1] = Call("connect", "localhost", 0, TRUE, FALSE)

\* C20: when _insert_data_internal has read the file to its end and every
\* insert succeeded, exactly one flush call was issued, as the last engine
\* call, and whether or not it failed the count returned is the number of
\* records inserted and the run is logged and returned as a Success.
C20_OneFlushAfterCommits ==
    /\ \A k \in 1..Len(calls) : calls[k].op = "flush" => k = Len(calls)
    /\ pc = "flush" => \A k \in 1..Len(calls) : calls[k].op = "insert" => calls[k].ok
    /\ IngestReturned =>
           /\ calls # <<>>
           /\ calls[Len(calls)].op = "flush"
           /\ run.total_inserted_count = SumInserted(calls)
           /\ run.log_status = "Success"
           /\ \A k \in 1..Len(upload_logs) :
                  /\ upload_logs[k].status = "Success"
                  /\ upload_logs[k].record_count = SumInserted(calls)
    /\ (pc \in {"log", "done"} /\ calls # <<>> /\ calls[Len(calls)].op = "flush") =>
           run.error = ""

C20_Witness ==
    /\ pc = "done"
    /\ calls # <<>>
    /\ calls[Len(calls)] = Call("flush", run.schema_name, 0, FALSE, FALSE)
    /\ Len(Inserts) = 2
    /\ upload_logs = <<[no |-> 1, schema_name |-> "docs", record_count |-> 3,
                        status |-> "Success", message |-> "inserted", message_len |-> 40]>>

\* C22: a call of get_or_create_collection in which create_index failed
\* raised, the failed create_index was its last engine call, and the
\* collection it had created is still in the engine.
C22_IndexFailureLeavesCollection ==
    /\ \A k \in 1..Len(calls) :
           (calls[k].op = "create_index" /\ ~calls[k].ok) =>
               (k < Len(calls) => calls[k + 1].op \in {"connect", "has_collection"})
    /\ \A k \in 1..Len(ensure_log) :
           LET e == ensure_log[k]
           IN  e.err = "CreateIndexError" =>
                   /\ ~e.ok
                   /\ e.created
                   /\ engine[e.host][e.name].exists
                   /\ e.indexed # <<>>
                   /\ e.indexed[Len(e.indexed)] \notin engine[e.host][e.name].indexes
    /\ \A k \in 1..Len(ensure_log) :
           (ensure_log[k].created /\ ensure_log[k].ok) =>
               ensure_log[k].indexed =
                   [j \in 1..Len(VectorFields(get_schema_by_name(schema_store, ensure_log[k].name))) |->
                       VectorFields(get_schema_by_name(schema_store, ensure_log[k].name))[j].name]

C22_Witness ==
    /\ pc = "idle"
    /\ Len(ensure_log) = 1
    /\ ensure_log[1].name = "pair"
    /\ ensure_log[1].err = "CreateIndexError"
    /\ ensure_log[1].indexed = <<"a">>
    /\ engine[ensure_log[1].host]["pair"].exists
    /\ engine[ensure_log[1].host]["pair"].indexes = {}

\* C23: no line of the file ends the run: whatever a present value is, a
\* failure to coerce it makes the record a skipped one.
C23_CoercionFailuresSkipped ==
    /\ \A k \in 1..Len(line_log) : line_log[k].out \in {"blank", "skip", "accept"}
    /\ run.error # "OverflowError"

\* C24: every value held in a FLOAT_VECTOR column of the batch is a list of
\* floats.
C24_VectorsNormalised ==
    \A f \in 1..Len(ing.batch_data) :
        ing.fields[f].dtype = "FLOAT_VECTOR" =>
            \A j \in 1..Len(ing.batch_data[f]) :
                LET v == ing.batch_data[f][j].val
                IN  \A x \in 1..Len(v.e) : v.e[x] = "f"

\* The lines of the rows the run has in the engine, in the order the engine
\* got them.
CommittedLines ==
    IF connections[DEFAULT_ALIAS] = NoHost \/ run.schema_name = "" THEN <<>>
    ELSE LET rows == engine[connections[DEFAULT_ALIAS]][run.schema_name].rows
         IN  [j \in 1..Len(rows) |-> rows[j].line]

\* The numbers of the lines whose record was accepted, in line order.
RECURSIVE AcceptedUpTo(_)
AcceptedUpTo(k) ==
    IF k = 0 THEN <<>>
    ELSE IF line_log[k].out = "accept" THEN Append(AcceptedUpTo(k - 1), k)
    ELSE AcceptedUpTo(k - 1)

\* C26: the rows of the run in the engine are accepted records in line
\* order, each once, and on a run that succeeded all of them.
C26_RowsAreAcceptedLinesInOrder ==
    LET accepted == AcceptedUpTo(Len(line_log))
    IN  /\ Len(CommittedLines) <= Len(accepted)
        /\ CommittedLines = SubSeq(accepted, 1, Len(CommittedLines))
        /\ IngestReturned => CommittedLines = accepted
        /\ Len(CommittedLines) = SumInserted(calls)

C26_Witness ==
    /\ pc = "done"
    /\ IngestReturned
    /\ run.batch_size = 2
    /\ CommittedLines = <<2, 3, 4>>
    /\ line_log[1].out = "skip"

\* C27: the run is logged as a Success exactly when it got through all its
\* steps down to the flush; otherwise it is logged as Failed with the text of
\* the exception that ended it, cut to 1020 characters, and that exception is
\* what the caller gets.
C27_StatusTellsOutcome ==
    pc \in {"log", "done"} =>
        /\ (run.log_status = "Success") = (calls # <<>> /\ calls[Len(calls)].op = "flush")
        /\ (run.log_status = "Success") = (run.error = "")
        /\ run.log_status \in {"Success", "Failed"}
        /\ run.log_status = "Failed" =>
               /\ run.log_message = run.error
               /\ run.message_len <= MessageLimit
               /\ run.message_len =
                      (IF DiagLen(run.error) < MessageLimit THEN DiagLen(run.error)
                       ELSE MessageLimit)
               /\ Outcome(run).raised = run.error
        /\ \A k \in 1..Len(upload_logs) :
               /\ upload_logs[k].status = run.log_status
               /\ upload_logs[k].message = run.log_message
               /\ upload_logs[k].message_len = run.message_len

C27_Witness ==
    /\ pc = "done"
    /\ run.error = "InsertError"
    /\ DiagLen(run.error) > MessageLimit
    /\ Len(upload_logs) = 1
    /\ upload_logs[1].status = "Failed"
    /\ upload_logs[1].message = "InsertError"
    /\ upload_logs[1].message_len = MessageLimit
    /\ audit_calls[1].outcome.raised = "InsertError"

\* C29: every insert call carries at least 1 and at most max(batch_size, 1)
\* records, whatever batch_size is, and a file whose records are all skipped
\* gives no insert call, one flush call and a count of 0.
C29_CommitSizes ==
    /\ \A k \in 1..Len(calls) :
           calls[k].op = "insert" =>
               /\ calls[k].n >= 1
               /\ calls[k].n <= (IF run.batch_size > 1 THEN run.batch_size ELSE 1)
    /\ (IngestReturned /\ AcceptedLines = 0) =>
           /\ Inserts = <<>>
           /\ calls[Len(calls)].op = "flush"
           /\ run.total_inserted_count = 0

C30_CommittedAtPassedHost ==
    (run.mode = "upload" /\ run.schema_name = "docs")
        => \A h \in Hosts :
              engine[h]["docs"].rows # <<>> => h = run.host

\* C28: create_schema writes a row only for a non-empty name that is not in
\* the table and a field list validate_schema_definition accepts; every other
\* call leaves the table as it was, and no two rows carry the same name
\* after any sequence of create and delete calls.
C28_StoredOnlyWhenValidated ==
    /\ \A k \in 1..Len(store_log) :
           LET e == store_log[k]
           IN  e.op = "create" =>
                 /\ ( \/ e.name = ""
                      \/ e.fields = <<>>
                      \/ validate_schema_definition(e.fields).err # ""
                      \/ RowsNamed(e.before, e.name) # {} )
                       => (e.after = e.before /\ e.res # "")
                 /\ e.after # e.before
                       => /\ e.res = ""
                          /\ validate_schema_definition(e.fields).err = ""
                          /\ e.after = Append(e.before, SchemaRow(e.name, AsStored(e.fields)))
    /\ \A i, j \in 1..Len(schema_store) :
           schema_store[i].name = schema_store[j].name => i = j

\* A list without a primary key was refused, then an accepted list was stored
\* under the same name.
C28_Witness ==
    /\ Len(store_log) = 2
    /\ store_log[1].op = "create" /\ store_log[1].res = "no_primary"
    /\ store_log[1].name = "ghost"
    /\ store_log[2].op = "create" /\ store_log[2].res = ""
    /\ store_log[2].name = "ghost"
    /\ RowsNamed(schema_store, "ghost") # {}

\* A create call on a name the table holds was refused.
C28_WitnessDuplicate ==
    /\ Len(store_log) = 2
    /\ store_log[1].op = "create" /\ store_log[1].res = ""
    /\ store_log[2].op = "create" /\ store_log[2].res = "exists"
    /\ store_log[2].name = store_log[1].name
    /\ validate_schema_definition(store_log[2].fields).err = ""

\* C21: a call of get_or_create_collection on a name the engine holds
\* returns the existing collection and leaves the engine unchanged: the step
\* that finds it issues no create call and maps nothing, whatever schema
\* definition the call was given.
C21_ExistingWins ==
    [][ ( /\ pc = "has"
          /\ run.mode = "ensure"
          /\ Collection.exists
          /\ pc' # "has" )
        => /\ engine' = engine
           /\ pc' = "idle"
           /\ prov' = IdleProv
           /\ calls' = Append(calls, calls'[Len(calls')])
           /\ calls'[Len(calls')].op = "has_collection"
           /\ ensure_log' = Append(ensure_log, ensure_log'[Len(ensure_log')])
           /\ LET e == ensure_log'[Len(ensure_log')]
              IN  /\ ~e.created /\ e.indexed = <<>>
                  /\ calls'[Len(calls')].ok => (e.ok /\ e.uid = Collection.uid)
                  /\ e.err \in {"", "HasCollectionError"} ]_vars

\* A call given a schema definition the mapper rejects was handed the
\* collection created for the schema the name had before.
C21_Witness ==
    /\ pc = "idle"
    /\ run.mode = "ensure"
    /\ ~map_schema_to_milvus(run.schema_def).ok
    /\ ensure_log # <<>>
    /\ LET e == ensure_log[Len(ensure_log)]
       IN  /\ e.no = run.no
           /\ e.ok /\ ~e.created /\ e.indexed = <<>>
           /\ e.uid = Collection.uid
           /\ Collection.schema = map_schema_to_milvus(DocsFields)

====
